---- MODULE Spec2Model ----
(***************************************************************************)
(* Time-blocking scheduler (apps/todo): SequenceBasedStrategy, the          *)
(* ConflictDetector it calls, the time model and the Scheduler that         *)
(* persists the strategy's output.                                          *)
(*                                                                          *)
(* Time is an integer number of minutes since midnight of day 0.  A         *)
(* datetime's date is DateOf(t), its hour:minute is TimeOfDay(t).           *)
(***************************************************************************)
EXTENDS Integers, Sequences, FiniteSets, TLC

VARIABLES
    caller,             \* who runs the strategy: "direct" | "scheduler" | "reschedule"
    pc,                 \* position of the running call
    tasks,              \* schedule(tasks, ...): the task list
    zones,              \* schedule(..., zones, ...): the zone templates
    existing_events,    \* schedule(..., existing_events)
    events,             \* strategy working list (existing + placed)
    scheduled_task_ids, \* strategy: ids of placed tasks
    remaining_tasks,    \* strategy: tasks not yet placed
    reported,           \* ids named by the failure / deadlock diagnostics
    outcome,            \* how the pass ended: "none" | "complete" | "failed" | "deadlock" | "no_zones"
    result,             \* list returned by schedule()
    repo_tasks,         \* TaskRepository.get_tasks()
    repo_events,        \* CalendarRepository.get_events()
    calendar,           \* MANAGED events persisted in the calendar repository
    calls,              \* log of calendar repository write calls
    create_i,           \* Scheduler: index of the next event to create
    returned,           \* list returned by the Scheduler call
    prev,               \* reschedule: what the previous pass left behind
    arg,                \* arguments of a direct call of a Task / TimeBlock / ConflictDetector method
    ret                 \* what that call returned

vars == <<caller, pc, tasks, zones, existing_events, events, scheduled_task_ids,
          remaining_tasks, reported, outcome, result, repo_tasks, repo_events,
          calendar, calls, create_i, returned, prev, arg, ret>>

stratVars == <<events, scheduled_task_ids, remaining_tasks, reported, outcome, result>>
inputVars == <<tasks, zones, existing_events>>
schedVars == <<repo_tasks, repo_events, calendar, calls, create_i, returned, prev>>
callVars == <<arg, ret>>

----------------------------------------------------------------------------
(* Program constants *)

MinutesPerDay == 1440
HorizonDays == 7
MaxChunkMinutes == 120
DefaultZoneMinDuration == 30
DefaultZoneBuffer == 15

(* Bounds of the model *)
MaxTasks == 2
MaxExisting == 2

----------------------------------------------------------------------------
(* Helpers *)

Max2(a, b) == IF a >= b THEN a ELSE b
Min2(a, b) == IF a <= b THEN a ELSE b

Range(s) == {s[i] : i \in 1..Len(s)}

RECURSIVE SumSeq(_)
SumSeq(s) == IF s = <<>> THEN 0 ELSE Head(s) + SumSeq(Tail(s))

\* datetime.date / datetime.replace(hour=.., minute=..)
DateOf(t) == t - (t % MinutesPerDay)
TimeOfDay(t) == t % MinutesPerDay
ReplaceHourMinute(day_start, t) == DateOf(day_start) + TimeOfDay(t)

\* injective sequences over S of length at most n (input lists without repeats)
InjSeqs(S, n) ==
    UNION {{s \in [1..k -> S] : \A i, j \in 1..k : i # j => s[i] # s[j]} : k \in 0..n}

----------------------------------------------------------------------------
(* Ids.  An id is a sequence of tokens; f"{task.id}_chunk_{n}" appends the   *)
(* separator token and the decimal of n; id.split('_chunk_')[0] is the       *)
(* prefix before the first separator.                                        *)

Decimal == <<"1", "2", "3", "4", "5", "6", "7", "8", "9">>

ChunkId(task_id, n) == task_id \o <<"_chunk_", Decimal[n]>>

BaseId(id) ==
    LET seps == {i \in 1..Len(id) : id[i] = "_chunk_"}
    IN  IF seps = {} THEN id
        ELSE SubSeq(id, 1, (CHOOSE i \in seps : \A j \in seps : i <= j) - 1)

----------------------------------------------------------------------------
(* Time model: Event, TimeBlock, TimeBlockZone *)

Event(id, start, end, type, buffer_required) ==
    [id |-> id, start |-> start, end |-> end, type |-> type,
     buffer_required |-> buffer_required]

TimeBlockZone(start, end, zone_type, energy_level, min_duration, buffer_required, evs) ==
    [start |-> start, end |-> end, zone_type |-> zone_type,
     energy_level |-> energy_level, min_duration |-> min_duration,
     buffer_required |-> buffer_required, is_zone |-> TRUE, events |-> evs]

TimeBlock(start, end, evs) ==
    [start |-> start, end |-> end, is_zone |-> FALSE, events |-> evs]

\* an overlap test on the closed interval: touching an endpoint counts
BlockGetConflicts_Closed(block, start, duration) ==
    LET end == start + duration
    IN  SelectSeq(block.events, LAMBDA e : start <= e.end /\ end >= e.start)

\* TimeBlock.get_conflicts
BlockGetConflicts(block, start, duration) ==
    LET end == start + duration
    IN  SelectSeq(block.events, LAMBDA e : start < e.end /\ end > e.start)

\* a buffer pass that does not leave out the events already found
ZoneGetConflicts_NoDedup(zone, start, duration) ==
    LET end == start + duration
        conflicts == SelectSeq(zone.events, LAMBDA e : start < e.end /\ end > e.start)
        buffer_start == start - zone.buffer_required
        buffer_end == start + (duration + zone.buffer_required)
        buffer_conflicts ==
            SelectSeq(zone.events,
                      LAMBDA e : buffer_start < e.end /\ buffer_end > e.start)
    IN  IF zone.buffer_required > 0 THEN conflicts \o buffer_conflicts ELSE conflicts

\* TimeBlockZone.get_conflicts
ZoneGetConflicts(zone, start, duration) ==
    LET end == start + duration
        conflicts == SelectSeq(zone.events, LAMBDA e : start < e.end /\ end > e.start)
        buffer_start == start - zone.buffer_required
        buffer_end == start + (duration + zone.buffer_required)
        buffer_conflicts ==
            SelectSeq(zone.events,
                      LAMBDA e : /\ buffer_start < e.end /\ buffer_end > e.start
                                 /\ e \notin Range(conflicts))
    IN  IF zone.buffer_required > 0 THEN conflicts \o buffer_conflicts ELSE conflicts

get_conflicts(block, start, duration) ==
    IF block.is_zone THEN ZoneGetConflicts(block, start, duration)
    ELSE BlockGetConflicts(block, start, duration)

\* TimeBlock.is_available / TimeBlockZone.is_available
is_available(block, start, duration) ==
    IF block.is_zone /\ duration < block.min_duration THEN FALSE
    ELSE IF start < block.start \/ start + duration > block.end THEN FALSE
    ELSE Len(get_conflicts(block, start, duration)) = 0

----------------------------------------------------------------------------
(* ConflictDetector (conflict.py, the one strategies.py imports) *)

\* Enum.value of ZoneType and EnergyLevel (task.py)
ZoneTypeValue == [DEEP |-> "deep", LIGHT |-> "light", ADMIN |-> "admin"]
EnergyLevelValue == [HIGH |-> "high", MEDIUM |-> "medium", LOW |-> "low"]

\* a formatted message: its text and the values formatted into it
Message(text, values) == [text |-> text, values |-> values]

NoConflict == [rule |-> "none", conflicting_events |-> <<>>]
Conflict(rule, evs, message) == [rule |-> rule, conflicting_events |-> evs, message |-> message]

\* a detector that looks at the zone's type before it looks at the events
find_conflicts_ZoneTypeFirst(task, proposed_start, time_block) ==
    LET proposed_end == proposed_start + task.duration
        required_buffer ==
            Max2(task.constraints.required_buffer,
                 IF time_block.is_zone THEN time_block.buffer_required ELSE 0)
        total_duration == task.duration + (2 * required_buffer)
        buffer_start == proposed_start - required_buffer
        all_conflicts == get_conflicts(time_block, buffer_start, total_duration)
        direct_conflicts ==
            SelectSeq(all_conflicts,
                      LAMBDA e : e.start < proposed_end /\ e.end > proposed_start)
        buffer_conflicts ==
            SelectSeq(all_conflicts,
                      LAMBDA e :
                        \/ (e.end <= proposed_start /\ proposed_start - e.end < required_buffer)
                        \/ (e.start >= proposed_end /\ e.start - proposed_end < required_buffer))
    IN  IF time_block.is_zone /\ time_block.zone_type # task.constraints.zone_type
        THEN Conflict("zone_type", <<>>,
                      Message("Task requires {} zone",
                              <<ZoneTypeValue[task.constraints.zone_type]>>))
        ELSE IF direct_conflicts # <<>>
             THEN Conflict("overlap", direct_conflicts,
                           Message("Time slot has conflicting events", <<>>))
        ELSE IF buffer_conflicts # <<>>
             THEN Conflict("buffer", buffer_conflicts,
                           Message("Buffer requirement of {} minutes not met",
                                   <<required_buffer>>))
        ELSE IF time_block.is_zone /\ time_block.energy_level # task.constraints.energy_level
             THEN Conflict("energy_level", <<>>,
                           Message("Task requires {} energy level",
                                   <<EnergyLevelValue[task.constraints.energy_level]>>))
        ELSE IF time_block.is_zone /\ task.duration < time_block.min_duration
             THEN Conflict("min_duration", <<>>,
                           Message("Task duration below zone minimum ({} min)",
                                   <<time_block.min_duration>>))
        ELSE NoConflict

find_conflicts(task, proposed_start, time_block) ==
    LET proposed_end == proposed_start + task.duration
        required_buffer ==
            Max2(task.constraints.required_buffer,
                 IF time_block.is_zone THEN time_block.buffer_required ELSE 0)
        total_duration == task.duration + (2 * required_buffer)
        buffer_start == proposed_start - required_buffer
        all_conflicts == get_conflicts(time_block, buffer_start, total_duration)
        direct_conflicts ==
            SelectSeq(all_conflicts,
                      LAMBDA e : e.start < proposed_end /\ e.end > proposed_start)
        buffer_conflicts ==
            SelectSeq(all_conflicts,
                      LAMBDA e :
                        \/ (e.end <= proposed_start /\ proposed_start - e.end < required_buffer)
                        \/ (e.start >= proposed_end /\ e.start - proposed_end < required_buffer))
    IN  IF direct_conflicts # <<>>
        THEN Conflict("overlap", direct_conflicts,
                      Message("Time slot has conflicting events", <<>>))
        ELSE IF buffer_conflicts # <<>>
             THEN Conflict("buffer", buffer_conflicts,
                           Message("Buffer requirement of {} minutes not met",
                                   <<required_buffer>>))
        ELSE IF time_block.is_zone /\ time_block.zone_type # task.constraints.zone_type
             THEN Conflict("zone_type", <<>>,
                           Message("Task requires {} zone",
                                   <<ZoneTypeValue[task.constraints.zone_type]>>))
        ELSE IF time_block.is_zone /\ time_block.energy_level # task.constraints.energy_level
             THEN Conflict("energy_level", <<>>,
                           Message("Task requires {} energy level",
                                   <<EnergyLevelValue[task.constraints.energy_level]>>))
        ELSE IF time_block.is_zone /\ task.duration < time_block.min_duration
             THEN Conflict("min_duration", <<>>,
                           Message("Task duration below zone minimum ({} min)",
                                   <<time_block.min_duration>>))
        ELSE NoConflict

----------------------------------------------------------------------------
(* SequenceBasedStrategy (scheduling/strategies.py) *)

\* _create_multi_day_zones: instance n is template ((n-1) % k)+1 on day (n-1) \div k
CreateMultiDayZones(base_zones, days) ==
    LET k == Len(base_zones)
        start_date == base_zones[1].start
    IN  [n \in 1..(days * k) |->
            LET day == (n - 1) \div k
                zone == base_zones[((n - 1) % k) + 1]
                day_start == start_date + day * MinutesPerDay
            IN  TimeBlockZone(ReplaceHourMinute(day_start, zone.start),
                              ReplaceHourMinute(day_start, zone.end),
                              zone.zone_type, zone.energy_level,
                              zone.min_duration, zone.buffer_required, <<>>)]

\* list.sort(key=lambda e: e.start) / sorted(zones, key=lambda z: z.start): stable
SortByStart(s) ==
    LET n == Len(s)
        Rank(i) == Cardinality({j \in 1..n : \/ s[j].start < s[i].start
                                             \/ (s[j].start = s[i].start /\ j < i)}) + 1
    IN  [p \in 1..n |-> s[CHOOSE i \in 1..n : Rank(i) = p]]

\* a key that puts the sequence number before the project
KeyLess_SequenceFirst(a, b) ==
    \/ a.due_date < b.due_date
    \/ (a.due_date = b.due_date /\ a.sequence_number < b.sequence_number)
    \/ (a.due_date = b.due_date /\ a.sequence_number = b.sequence_number
        /\ a.project_id < b.project_id)

\* key (due_date, project_id, sequence_number), compared as Python compares tuples
KeyLess(a, b) ==
    \/ a.due_date < b.due_date
    \/ (a.due_date = b.due_date /\ a.project_id < b.project_id)
    \/ (a.due_date = b.due_date /\ a.project_id = b.project_id
        /\ a.sequence_number < b.sequence_number)

KeyEqual(a, b) ==
    /\ a.due_date = b.due_date
    /\ a.project_id = b.project_id
    /\ a.sequence_number = b.sequence_number

\* available_tasks.sort(key=...): stable
SortTasks(s) ==
    LET n == Len(s)
        Rank(i) == Cardinality({j \in 1..n : \/ KeyLess(s[j], s[i])
                                             \/ (KeyEqual(s[j], s[i]) /\ j < i)}) + 1
    IN  [p \in 1..n |-> s[CHOOSE i \in 1..n : Rank(i) = p]]

\* every remaining task counts as available, whatever it depends on
AvailableTasks_IgnoresDependencies(remaining, scheduled) == remaining

\* the comprehension building available_tasks
AvailableTasks(remaining, scheduled) ==
    SelectSeq(remaining, LAMBDA t : \A dep \in t.constraints.dependencies : dep \in scheduled)

\* a remove that leaves the list as it is
RemoveFirst_Keeps(s, x) == s

\* remaining_tasks.remove(task): drops the first equal element
RemoveFirst(s, x) ==
    LET idx == {i \in 1..Len(s) : s[i] = x}
    IN  IF idx = {} THEN s
        ELSE LET i == CHOOSE i \in idx : \A j \in idx : i <= j
             IN  SubSeq(s, 1, i - 1) \o SubSeq(s, i + 1, Len(s))

\* _find_available_slots: list of <<slot_start, slot_end>>
FindAvailableSlots(zone, evs, min_duration) ==
    LET zone_events ==
            SortByStart(SelectSeq(evs, LAMBDA e : e.end > zone.start /\ e.start < zone.end))
        n == Len(zone_events)
        first == IF zone_events[1].start - zone.start >= min_duration
                 THEN <<(<<zone.start, zone_events[1].start>>)>> ELSE <<>>
        Between(i) ==
            LET slot_start == zone_events[i].end + zone_events[i].buffer_required
            IN  IF zone_events[i + 1].start - slot_start >= min_duration
                THEN <<(<<slot_start, zone_events[i + 1].start>>)>> ELSE <<>>
        betweenAll[i \in 0..(n - 1)] ==
            IF i = 0 THEN <<>> ELSE betweenAll[i - 1] \o Between(i)
        final_start == zone_events[n].end + zone_events[n].buffer_required
        final == IF zone.end - final_start >= min_duration
                 THEN <<(<<final_start, zone.end>>)>> ELSE <<>>
    IN  IF n = 0
        THEN IF zone.end - zone.start >= min_duration
             THEN <<(<<zone.start, zone.end>>)>> ELSE <<>>
        ELSE first \o betweenAll[n - 1] \o final

\* a chunk without the two-hour cap
ChunkDuration_Uncapped(remaining_duration, available_duration) ==
    Min2(remaining_duration, available_duration)

\* a chunk sized by the gap alone, forgetting what is left of the task
ChunkDuration_IgnoresRemaining(remaining_duration, available_duration) ==
    Min2(available_duration, MaxChunkMinutes)

\* chunk_duration = min(remaining_duration, available_duration, 120)
ChunkDuration(remaining_duration, available_duration) ==
    Min2(Min2(remaining_duration, available_duration), MaxChunkMinutes)

\* _try_schedule_split_task, inner loop over the slots of one zone
RECURSIVE SplitSlots(_, _, _, _)
SplitSlots(task, slots, i, st) ==
    IF i > Len(slots) THEN st
    ELSE IF st.remaining_duration <= 0 \/ st.chunk_count >= task.constraints.max_split_count
    THEN st
    ELSE
        LET slot_start == slots[i][1]
            slot_end == slots[i][2]
            chunk_duration == ChunkDuration(st.remaining_duration, slot_end - slot_start)
        IN  IF chunk_duration >= task.constraints.min_chunk_duration
            THEN LET event == Event(ChunkId(task.id, st.chunk_count + 1), slot_start,
                                    slot_start + chunk_duration, "MANAGED",
                                    task.constraints.required_buffer)
                 IN  SplitSlots(task, slots, i + 1,
                        [remaining_duration |-> st.remaining_duration - chunk_duration,
                         chunk_count |-> st.chunk_count + 1,
                         task_events |-> Append(st.task_events, event),
                         current_events |-> Append(st.current_events, event)])
            ELSE SplitSlots(task, slots, i + 1, st)

\* _try_schedule_split_task, outer loop over the zones sorted by start
RECURSIVE SplitZones(_, _, _, _)
SplitZones(task, sorted_zones, i, st) ==
    IF i > Len(sorted_zones) THEN st
    ELSE IF st.remaining_duration <= 0 THEN st
    ELSE IF sorted_zones[i].zone_type # task.constraints.zone_type
    THEN SplitZones(task, sorted_zones, i + 1, st)
    ELSE LET available_slots ==
                 FindAvailableSlots(sorted_zones[i], st.current_events,
                                    task.constraints.min_chunk_duration)
         IN  SplitZones(task, sorted_zones, i + 1, SplitSlots(task, available_slots, 1, st))

\* chunks written to the shared list as they are cut, kept when the task fails
TryScheduleSplitTask_KeepsPartial(task, all_zones, evs, scheduled) ==
    LET st == SplitZones(task, SortByStart(all_zones), 1,
                  [remaining_duration |-> task.duration, chunk_count |-> 0,
                   task_events |-> <<>>, current_events |-> evs])
    IN  [ok |-> st.remaining_duration <= 0,
         events |-> evs \o st.task_events,
         scheduled_task_ids |->
             scheduled \cup {BaseId(st.task_events[i].id) : i \in 1..Len(st.task_events)}]

\* _try_schedule_split_task: [ok, events, scheduled_task_ids] after the call
TryScheduleSplitTask(task, all_zones, evs, scheduled) ==
    LET st == SplitZones(task, SortByStart(all_zones), 1,
                  [remaining_duration |-> task.duration, chunk_count |-> 0,
                   task_events |-> <<>>, current_events |-> evs])
    IN  IF st.remaining_duration <= 0
        THEN [ok |-> TRUE,
              events |-> evs \o st.task_events,
              scheduled_task_ids |->
                  scheduled \cup {BaseId(st.task_events[i].id) : i \in 1..Len(st.task_events)}]
        ELSE [ok |-> FALSE, events |-> evs, scheduled_task_ids |-> scheduled]

\* _try_schedule_task: candidate start in one zone
CandidateStart(task, zone, evs) ==
    IF evs # <<>>
    THEN LET last_event == evs[Len(evs)]
             required_buffer == Max2(task.constraints.required_buffer,
                                     last_event.buffer_required)
         IN  Max2(zone.start, last_event.end + required_buffer)
    ELSE zone.start

\* _try_schedule_task: does this zone admit the task
ZoneAdmits(task, zone, evs) ==
    /\ zone.zone_type = task.constraints.zone_type
    /\ CandidateStart(task, zone, evs) + task.duration <= zone.end
    /\ find_conflicts(task, CandidateStart(task, zone, evs), zone).rule = "none"

\* _try_schedule_task: [ok, events, scheduled_task_ids] after the call
TryScheduleTask(task, all_zones, evs, scheduled) ==
    LET admitting == {i \in 1..Len(all_zones) : ZoneAdmits(task, all_zones[i], evs)}
    IN  IF admitting = {}
        THEN [ok |-> FALSE, events |-> evs, scheduled_task_ids |-> scheduled]
        ELSE LET i == CHOOSE i \in admitting : \A j \in admitting : i <= j
                 current_time == CandidateStart(task, all_zones[i], evs)
                 event == Event(task.id, current_time, current_time + task.duration,
                                "MANAGED", task.constraints.required_buffer)
             IN  [ok |-> TRUE, events |-> Append(evs, event),
                  scheduled_task_ids |-> scheduled \cup {task.id}]

\* the return statement of schedule()
ManagedOnly(evs) == SelectSeq(evs, LAMBDA e : e.type = "MANAGED")

----------------------------------------------------------------------------
(* Inputs.  Tasks, zone templates and calendar events are drawn from small   *)
(* pools; a task list is a list of distinct pool tasks in any order.         *)

TaskConstraints(zone_type, energy_level, is_splittable, min_chunk_duration, max_split_count, required_buffer, dependencies) ==
    [zone_type |-> zone_type, energy_level |-> energy_level,
     is_splittable |-> is_splittable, min_chunk_duration |-> min_chunk_duration,
     max_split_count |-> max_split_count, required_buffer |-> required_buffer,
     dependencies |-> dependencies]

Task(id, title, duration, due_date, priority, project_id, sequence_number, constraints) ==
    [id |-> id, title |-> title, duration |-> duration, due_date |-> due_date, priority |-> priority,
     project_id |-> project_id, sequence_number |-> sequence_number,
     constraints |-> constraints]

Hour(h) == h * 60
OnDay(d, t) == d * MinutesPerDay + t

TaskA == Task(<<"A">>, <<"Task A">>, 60, OnDay(2, 0), 1, 1, 1,
              TaskConstraints("DEEP", "HIGH", FALSE, 30, 1, 15, {}))
TaskB == Task(<<"B">>, <<"Task B">>, 60, OnDay(2, 0), 2, 1, 2,
              TaskConstraints("DEEP", "HIGH", FALSE, 30, 1, 30, {}))
TaskC == Task(<<"C">>, <<"Task C">>, 240, OnDay(2, 0), 1, 1, 1,
              TaskConstraints("DEEP", "HIGH", TRUE, 60, 4, 15, {}))
TaskD == Task(<<"D">>, <<"Task D">>, 180, OnDay(1, 0), 3, 1, 2,
              TaskConstraints("DEEP", "HIGH", FALSE, 30, 1, 0, {}))
TaskE == Task(<<"E">>, <<"Task E">>, 60, OnDay(2, 0), 1, 1, 3,
              TaskConstraints("DEEP", "LOW", TRUE, 60, 2, 0, {<<"A">>}))
TaskF == Task(<<"F">>, <<"Task F">>, 60, OnDay(2, 0), 2, 1, 1,
              TaskConstraints("LIGHT", "MEDIUM", TRUE, 30, 2, 15, {}))

TaskPool == {TaskA, TaskB, TaskC, TaskD, TaskE, TaskF}

DeepHigh(d) == TimeBlockZone(OnDay(d, Hour(9)), OnDay(d, Hour(13)), "DEEP", "HIGH", 30, 15, <<>>)
DeepLow == TimeBlockZone(Hour(9), Hour(13), "DEEP", "LOW", 30, 0, <<>>)
DeepHighAfternoon == TimeBlockZone(Hour(14), Hour(18), "DEEP", "HIGH", 30, 15, <<>>)
LightMedium == TimeBlockZone(Hour(13), Hour(17), "LIGHT", "MEDIUM", 30, 15, <<>>)

ZoneListPool ==
    { <<>>,
      <<DeepHigh(0)>>,
      <<DeepHigh(0), DeepHigh(1)>>,
      <<DeepLow, DeepHighAfternoon>>,
      <<DeepHigh(0), LightMedium>>,
      <<LightMedium>> }

Meeting == Event(<<"meeting">>, Hour(10), Hour(11), "FIXED", 0)
Early   == Event(<<"early">>, Hour(8), Hour(8) + 30, "FIXED", 30)
Block   == Event(<<"block">>, Hour(9), Hour(12), "FIXED", 0)

EventPool == {Meeting, Early, Block}

TaskLists == InjSeqs(TaskPool, MaxTasks)
EventLists == InjSeqs(EventPool, MaxExisting)

----------------------------------------------------------------------------
(* SequenceBasedStrategy.schedule, one action per loop iteration *)

InitStrategyState ==
    /\ events = <<>>
    /\ scheduled_task_ids = {}
    /\ remaining_tasks = <<>>
    /\ reported = {}
    /\ outcome = "none"
    /\ result = <<>>

\* nothing rescheduled yet
NoPrev == [events |-> <<>>, affected |-> {}]

InitSchedulerState ==
    /\ repo_tasks = <<>>
    /\ repo_events = <<>>
    /\ calendar = <<>>
    /\ calls = <<>>
    /\ create_i = 0
    /\ returned = <<>>
    /\ prev = NoPrev

\* no method is called directly in a scheduling pass
NoCall == arg = <<>> /\ ret = <<>>

Init ==
    /\ caller = "direct"
    /\ pc = "start"
    /\ tasks \in TaskLists
    /\ zones \in ZoneListPool
    /\ existing_events \in EventLists
    /\ InitStrategyState
    /\ InitSchedulerState
    /\ NoCall

all_zones == CreateMultiDayZones(zones, HorizonDays)

available_tasks == AvailableTasks(remaining_tasks, scheduled_task_ids)

\* the task picked in this iteration: available_tasks[0] after the sort
NextTask == SortTasks(available_tasks)[1]

Attempt(task) ==
    IF task.constraints.is_splittable
    THEN TryScheduleSplitTask(task, all_zones, events, scheduled_task_ids)
    ELSE TryScheduleTask(task, all_zones, events, scheduled_task_ids)

\* if not zones: return []
StartNoZones ==
    /\ pc = "start"
    /\ zones = <<>>
    /\ result' = <<>>
    /\ outcome' = "no_zones"
    /\ pc' = "done"
    /\ UNCHANGED <<callVars, caller, inputVars, events, scheduled_task_ids, remaining_tasks,
                   reported, schedVars>>

StartPass ==
    /\ pc = "start"
    /\ zones # <<>>
    /\ events' = existing_events
    /\ scheduled_task_ids' = {}
    /\ remaining_tasks' = tasks
    /\ pc' = "loop"
    /\ UNCHANGED <<callVars, caller, inputVars, reported, outcome, result, schedVars>>

\* while remaining_tasks: exhausted
LoopDone ==
    /\ pc = "loop"
    /\ remaining_tasks = <<>>
    /\ result' = ManagedOnly(events)
    /\ outcome' = "complete"
    /\ pc' = "done"
    /\ UNCHANGED <<callVars, caller, inputVars, events, scheduled_task_ids, remaining_tasks,
                   reported, schedVars>>

\* if not available_tasks: print the remaining tasks, break
Deadlock ==
    /\ pc = "loop"
    /\ remaining_tasks # <<>>
    /\ available_tasks = <<>>
    /\ reported' = {remaining_tasks[i].id : i \in 1..Len(remaining_tasks)}
    /\ result' = ManagedOnly(events)
    /\ outcome' = "deadlock"
    /\ pc' = "done"
    /\ UNCHANGED <<callVars, caller, inputVars, events, scheduled_task_ids, remaining_tasks, schedVars>>

\* a working list that is the caller's list itself: changes in place reach the caller
CallersList_Aliased(own, working) == working

\* events = existing_events.copy() / remaining_tasks = tasks.copy(): the caller's
\* list after the working copy was changed in place
CallersList(own, working) == own

\* if scheduled: remaining_tasks.remove(task)
PlaceTask ==
    /\ pc = "loop"
    /\ available_tasks # <<>>
    /\ Attempt(NextTask).ok
    /\ events' = Attempt(NextTask).events
    /\ scheduled_task_ids' = Attempt(NextTask).scheduled_task_ids
    /\ remaining_tasks' = RemoveFirst(remaining_tasks, NextTask)
    /\ existing_events' = CallersList(existing_events, Attempt(NextTask).events)
    /\ tasks' = CallersList(tasks, RemoveFirst(remaining_tasks, NextTask))
    /\ UNCHANGED <<callVars, caller, pc, zones, reported, outcome, result, schedVars>>

\* a failed task that is dropped while the loop goes on to the next one
FailTask_SkipsTask ==
    /\ pc = "loop"
    /\ available_tasks # <<>>
    /\ ~Attempt(NextTask).ok
    /\ reported' = reported \cup {NextTask.id}
    /\ events' = Attempt(NextTask).events
    /\ scheduled_task_ids' = Attempt(NextTask).scheduled_task_ids
    /\ remaining_tasks' = RemoveFirst(remaining_tasks, NextTask)
    /\ UNCHANGED <<callVars, caller, pc, inputVars, outcome, result, schedVars>>

\* else: print "Failed to schedule task", break; the lists are as the attempt left them
FailTask ==
    /\ pc = "loop"
    /\ available_tasks # <<>>
    /\ ~Attempt(NextTask).ok
    /\ reported' = {NextTask.id}
    /\ events' = Attempt(NextTask).events
    /\ scheduled_task_ids' = Attempt(NextTask).scheduled_task_ids
    /\ result' = ManagedOnly(events')
    /\ outcome' = "failed"
    /\ pc' = "done"
    /\ UNCHANGED <<callVars, caller, inputVars, remaining_tasks, schedVars>>

\* the pass once the zone list is known to be non-empty
StrategyPass ==
    \/ StartPass
    \/ LoopDone
    \/ Deadlock
    \/ PlaceTask
    \/ FailTask

StrategyNext == StartNoZones \/ StrategyPass

Next == StrategyNext

Spec == Init /\ [][Next]_vars

----------------------------------------------------------------------------
(* Scheduler.schedule_tasks (scheduler.py), one action per repository call *)

\* start = datetime.now().replace(hour=9, minute=0); "now" is on day 0
PlanningStart == Hour(9)

\* the default zone built by schedule_tasks
DefaultZone ==
    TimeBlockZone(PlanningStart, PlanningStart + Hour(4), "DEEP", "HIGH",
                  DefaultZoneMinDuration, DefaultZoneBuffer, <<>>)

\* a MANAGED event left in the calendar by an earlier pass
Stale == Event(<<"old">>, Hour(9), Hour(10), "MANAGED", 0)

SchedInit ==
    /\ caller = "scheduler"
    /\ pc = "sched_start"
    /\ tasks = <<>>
    /\ zones = <<>>
    /\ existing_events = <<>>
    /\ InitStrategyState
    /\ repo_tasks \in TaskLists
    /\ repo_events \in EventLists
    /\ calendar \in {<<>>, <<Stale>>}
    /\ calls = <<>>
    /\ create_i = 0
    /\ returned = <<>>
    /\ prev = NoPrev
    /\ NoCall

\* tasks = get_tasks(); if not tasks: return []
SchedNoTasks ==
    /\ pc = "sched_start"
    /\ repo_tasks = <<>>
    /\ returned' = <<>>
    /\ pc' = "returned"
    /\ UNCHANGED <<callVars, caller, inputVars, stratVars, repo_tasks, repo_events, calendar,
                   calls, create_i, prev>>

\* delete-then-plan: the old events are removed before the strategy has run
SchedCallStrategy_RemovesFirst ==
    /\ pc = "sched_start"
    /\ repo_tasks # <<>>
    /\ tasks' = repo_tasks
    /\ existing_events' = repo_events
    /\ zones' = <<DefaultZone>>
    /\ calendar' = <<>>
    /\ calls' = Append(calls, [op |-> "remove_managed_events"])
    /\ pc' = "start"
    /\ UNCHANGED <<callVars, caller, stratVars, repo_tasks, repo_events, create_i, returned, prev>>

\* get_tasks, get_events, default zone, strategy.schedule(tasks, zones, existing_events)
SchedCallStrategy ==
    /\ pc = "sched_start"
    /\ repo_tasks # <<>>
    /\ tasks' = repo_tasks
    /\ existing_events' = repo_events
    /\ zones' = <<DefaultZone>>
    /\ pc' = "start"
    /\ UNCHANGED <<callVars, caller, stratVars, schedVars>>

\* calendar_repo.remove_managed_events()
RemoveManagedEvents ==
    /\ pc = "done"
    /\ caller \in {"scheduler", "reschedule"}
    /\ calendar' = <<>>
    /\ calls' = Append(calls, [op |-> "remove_managed_events"])
    /\ create_i' = 1
    /\ pc' = "create"
    /\ UNCHANGED <<callVars, caller, inputVars, stratVars, repo_tasks, repo_events, returned, prev>>

\* for event in scheduled_events: calendar_repo.create_event(event)
CreateEvent ==
    /\ pc = "create"
    /\ create_i <= Len(result)
    /\ calendar' = Append(calendar, result[create_i])
    /\ calls' = Append(calls, [op |-> "create_event", event |-> result[create_i]])
    /\ create_i' = create_i + 1
    /\ UNCHANGED <<callVars, caller, pc, inputVars, stratVars, repo_tasks, repo_events, returned, prev>>

\* return scheduled_events
SchedReturn ==
    /\ pc = "create"
    /\ create_i > Len(result)
    /\ returned' = result
    /\ pc' = "returned"
    /\ UNCHANGED <<callVars, caller, inputVars, stratVars, repo_tasks, repo_events, calendar,
                   calls, create_i, prev>>

SchedulerNext ==
    \/ SchedNoTasks
    \/ SchedCallStrategy
    \/ RemoveManagedEvents
    \/ CreateEvent
    \/ SchedReturn

----------------------------------------------------------------------------
(* Scheduler.reschedule(affected_task_ids): incremental reschedule.  The     *)
(* method is called by the tests but is not part of scheduler.py; it is      *)
(* modelled from section 4.5 of the specification: the affected tasks and    *)
(* their transitive dependents are re-planned by the strategy around the     *)
(* FIXED events and the kept MANAGED events, then the calendar is deleted    *)
(* and recreated from the strategy's output.                                 *)

\* the caller's edit between two passes: one task's duration grows
DurationChange == 30

\* a closure that takes in every task: a full re-plan
DependentClosure_AllTasks(ts, ids) == {ts[i].id : i \in 1..Len(ts)}

\* affected ids plus the ids of their transitive dependents
RECURSIVE DependentClosure(_, _)
DependentClosure(ts, ids) ==
    LET more == ids \cup {ts[i].id : i \in
                    {j \in 1..Len(ts) : ts[j].constraints.dependencies \cap ids # {}}}
    IN  IF more = ids THEN ids ELSE DependentClosure(ts, more)

\* previously persisted events of the tasks that are not re-planned
KeptEvents(persisted, closure) ==
    SelectSeq(persisted, LAMBDA e : BaseId(e.id) \notin closure)

RescheduleAffected ==
    /\ pc = "returned"
    /\ caller = "scheduler"
    /\ \E i \in 1..Len(repo_tasks) :
          LET changed == [repo_tasks EXCEPT ![i].duration = @ + DurationChange]
              closure == DependentClosure(changed, {changed[i].id})
          IN  /\ repo_tasks' = changed
              /\ tasks' = SelectSeq(changed, LAMBDA t : t.id \in closure)
              /\ existing_events' = repo_events \o KeptEvents(calendar, closure)
              /\ prev' = [events |-> calendar, affected |-> {changed[i].id}]
    /\ zones' = <<DefaultZone>>
    /\ caller' = "reschedule"
    /\ pc' = "start"
    /\ events' = <<>>
    /\ scheduled_task_ids' = {}
    /\ remaining_tasks' = <<>>
    /\ reported' = {}
    /\ outcome' = "none"
    /\ result' = <<>>
    /\ calls' = <<>>
    /\ create_i' = 0
    /\ returned' = <<>>
    /\ UNCHANGED <<callVars, repo_events, calendar>>

\* the Scheduler always hands the strategy its one default zone, so the
\* strategy's empty-zone return is not among its steps here
SchedNext == SchedulerNext \/ RescheduleAffected \/ StrategyPass

SchedSpec == SchedInit /\ [][SchedNext]_vars

----------------------------------------------------------------------------
(* Properties of SequenceBasedStrategy.schedule and Scheduler.schedule_tasks *)

Overlap(e1, e2) == e1.start < e2.end /\ e2.start < e1.end

StrategyReturned == pc = "done"

\* the events of the output that belong to a task (its block, or its chunks)
EventsOf(t, out) == SelectSeq(out, LAMBDA e : BaseId(e.id) = t.id)

\* the chunk events '<id>_chunk_<k>' of a task in the output
IsChunkOf(e, t) == \E k \in 1..Len(Decimal) : e.id = ChunkId(t.id, k)
ChunksOf(t, out) == SelectSeq(out, LAMBDA e : IsChunkOf(e, t))

TaskOfEvent(e) == CHOOSE t \in Range(tasks) : t.id = BaseId(e.id)

Duration(e) == e.end - e.start

FixedEvents == SelectSeq(existing_events, LAMBDA e : e.type = "FIXED")

\* C1: no two distinct MANAGED events of the returned list overlap in time.
C1_NoManagedOverlap ==
    StrategyReturned =>
        \A i, j \in 1..Len(result) : i # j => ~Overlap(result[i], result[j])

\* C2: no returned MANAGED event overlaps a FIXED event of existing_events.
C2_NoFixedOverlap ==
    StrategyReturned =>
        \A i \in 1..Len(result) : \A k \in 1..Len(FixedEvents) :
            ~Overlap(result[i], FixedEvents[k])

\* C3: when d is a dependency of t and both are placed, every event of d ends
\* at or before the start of every event of t.
C3_DependenciesInTime ==
    StrategyReturned =>
        \A d, t \in Range(tasks) :
            d.id \in t.constraints.dependencies =>
                \A ed \in Range(EventsOf(d, result)) : \A et \in Range(EventsOf(t, result)) :
                    ed.end <= et.start

\* C4: every returned MANAGED event lies inside one expanded zone instance
\* whose zone_type and energy_level equal those of its task.
C4_InsideMatchingZone ==
    StrategyReturned =>
        \A e \in Range(result) :
            \E n \in 1..Len(all_zones) :
                /\ all_zones[n].start <= e.start
                /\ e.end <= all_zones[n].end
                /\ all_zones[n].zone_type = TaskOfEvent(e).constraints.zone_type
                /\ all_zones[n].energy_level = TaskOfEvent(e).constraints.energy_level

\* the events a placement has as neighbours: FIXED and MANAGED ones
FinalEvents == FixedEvents \o result

Precedes(o, e) == o # e /\ o.start <= e.start
Follows(o, e) == o # e /\ o.start > e.start

\* nearest preceding / following events of e
NearestPreceding(e) ==
    {o \in Range(FinalEvents) :
        Precedes(o, e) /\ \A q \in Range(FinalEvents) : Precedes(q, e) => q.end <= o.end}
NearestFollowing(e) ==
    {o \in Range(FinalEvents) :
        Follows(o, e) /\ \A q \in Range(FinalEvents) : Follows(q, e) => o.start <= q.start}

\* the buffer_required of the zone instances of the task's type that contain e
ZoneBuffers(e) ==
    {all_zones[n].buffer_required : n \in
        {m \in 1..Len(all_zones) :
            /\ all_zones[m].start <= e.start /\ e.end <= all_zones[m].end
            /\ all_zones[m].zone_type = TaskOfEvent(e).constraints.zone_type}}

\* C5: every MANAGED event is at least the effective buffer away from its
\* nearest preceding and nearest following event, effective buffer being
\* max(task.required_buffer, zone.buffer_required, predecessor.buffer_required).
C5_BufferSeparation ==
    StrategyReturned =>
        \A e \in Range(result) : \A zb \in ZoneBuffers(e) :
            LET tb == TaskOfEvent(e).constraints.required_buffer
            IN  /\ \A p \in NearestPreceding(e) :
                       e.start - p.end >= Max2(Max2(tb, zb), p.buffer_required)
                /\ \A f \in NearestFollowing(e) :
                       f.start - e.end >= Max2(Max2(tb, zb), e.buffer_required)

Placed(t) == t.id \in scheduled_task_ids

\* C6: a placed splittable task has chunk events '<id>_chunk_1' .. '<id>_chunk_n'
\* whose durations sum to task.duration; an unplaced one has no chunk event.
C6_ChunksSumToDuration ==
    StrategyReturned =>
        \A t \in Range(tasks) :
            t.constraints.is_splittable =>
                LET ch == ChunksOf(t, result)
                IN  IF Placed(t)
                    THEN /\ \A i \in 1..Len(ch) : ch[i].id = ChunkId(t.id, i)
                         /\ SumSeq([i \in 1..Len(ch) |-> Duration(ch[i])]) = t.duration
                    ELSE ch = <<>>

\* a pass that placed one splittable task in several chunks and failed to place another
C6_Witness ==
    /\ StrategyReturned
    /\ \E t \in Range(tasks) :
          t.constraints.is_splittable /\ Placed(t) /\ Len(ChunksOf(t, result)) >= 2
    /\ \E t \in Range(tasks) :
          t.constraints.is_splittable /\ ~Placed(t) /\ outcome = "failed" /\ t.id \in reported

ScenarioC ==
    /\ tasks = <<TaskC>>
    /\ zones = <<DeepHigh(0), DeepHigh(1)>>
    /\ existing_events = <<>>

\* C7: Scenario C yields exactly two 120-minute chunks, one on each day.
C7_ScenarioC ==
    (StrategyReturned /\ ScenarioC) =>
        /\ Len(result) = 2
        /\ \A i \in 1..2 : Duration(result[i]) = 120 /\ IsChunkOf(result[i], TaskC)
        /\ {DateOf(result[i].start) : i \in 1..2} = {OnDay(0, 0), OnDay(1, 0)}

\* C8: every input task is either scheduled (has events in the output) or
\* named by a failure / deadlock report, and never neither.
C8_ScheduledOrReported ==
    StrategyReturned =>
        \A t \in Range(tasks) :
            (EventsOf(t, result) # <<>>) # (t.id \in reported)

SchedReturned == pc = "returned" /\ caller = "scheduler"

CreateCalls(evs) == [i \in 1..Len(evs) |-> [op |-> "create_event", event |-> evs[i]]]

\* C9: after schedule_tasks returns, the persisted MANAGED events are exactly
\* the returned ones: one remove_managed_events, then one create_event per
\* returned event, in order.
C9_PersistedEqualsReturned ==
    SchedReturned =>
        /\ calendar = returned
        /\ calls = <<[op |-> "remove_managed_events"]>> \o CreateCalls(returned)

RescheduleReturned == pc = "returned" /\ caller = "reschedule"

\* the tasks whose chain of dependencies leads to an affected task
DependsOnAffected(t, n) ==
    LET Step[k \in 0..n] ==
            IF k = 0 THEN prev.affected
            ELSE Step[k - 1] \cup
                 {u.id : u \in {v \in Range(repo_tasks) :
                                   v.constraints.dependencies \cap Step[k - 1] # {}}}
    IN  t.id \in Step[n]

Unaffected(t) == ~DependsOnAffected(t, Len(repo_tasks))

\* C10: after an incremental reschedule every event of a task that is neither
\* affected nor a transitive dependent of an affected task is returned with
\* the start and end it had before.
C10_UnaffectedKeepTimes ==
    RescheduleReturned =>
        \A t \in Range(repo_tasks) :
            Unaffected(t) =>
                /\ \A e \in Range(EventsOf(t, prev.events)) :
                       \E r \in Range(returned) :
                           r.id = e.id /\ r.start = e.start /\ r.end = e.end
                /\ \A r \in Range(EventsOf(t, returned)) :
                       \E e \in Range(prev.events) :
                           r.id = e.id /\ r.start = e.start /\ r.end = e.end

\* an incremental reschedule that kept an unaffected task's event and gave
\* the affected task a new, longer event
C10_Witness ==
    /\ RescheduleReturned
    /\ \E t \in Range(repo_tasks) : Unaffected(t) /\ EventsOf(t, prev.events) # <<>>
    /\ \E t \in Range(repo_tasks) :
          /\ t.id \in prev.affected
          /\ EventsOf(t, prev.events) # <<>>
          /\ EventsOf(t, returned) # <<>>
          /\ \A r \in Range(EventsOf(t, returned)) : r \notin Range(prev.events)

----------------------------------------------------------------------------
(* Task (task.py): validate, get_minimum_duration and split, called directly *)
(* on a task as the unit tests do.  A title is a sequence of tokens, the     *)
(* empty title being <<>>.                                                   *)

\* the dataclass as constructed by Task(...): it has no sequence_number
PlainTask(id, title, duration, due_date, priority, project_id, constraints) ==
    [id |-> id, title |-> title, duration |-> duration, due_date |-> due_date,
     priority |-> priority, project_id |-> project_id, constraints |-> constraints]

\* how a call ends: a returned value or a raised ValueError
Returned(value) == [raised |-> FALSE, value |-> value]
Raised(message) == [raised |-> TRUE, message |-> message]

\* Task.validate; now is the datetime.now() it reads
validate(task, now) ==
    LET total_min_duration ==
            task.constraints.min_chunk_duration * task.constraints.max_split_count
        duration_errors ==
            IF task.duration <= 0
            THEN <<Message("Task duration must be positive", <<>>)>> ELSE <<>>
        due_date_errors ==
            IF task.due_date < now
            THEN <<Message("Due date cannot be in the past", <<>>)>> ELSE <<>>
        split_errors ==
            IF task.constraints.is_splittable /\ total_min_duration > task.duration
            THEN <<Message("Total minimum chunk duration exceeds task duration",
                           <<total_min_duration, task.duration>>)>>
            ELSE <<>>
    IN  duration_errors \o due_date_errors \o split_errors

\* Task.get_minimum_duration
get_minimum_duration(task) ==
    IF task.constraints.is_splittable THEN task.constraints.min_chunk_duration
    ELSE task.duration

\* a parameter check that lets chunk sizes of any total through
SplitError_NoSumCheck(task, chunk_sizes) ==
    IF Len(chunk_sizes) > task.constraints.max_split_count
    THEN "Exceeds maximum split count"
    ELSE IF \E i \in 1..Len(chunk_sizes) : chunk_sizes[i] < task.constraints.min_chunk_duration
    THEN "All chunks must be at least min_chunk_duration minutes"
    ELSE IF ~task.constraints.is_splittable
    THEN "Task is not splittable"
    ELSE "none"

\* Task.split: the parameter checks, in the order of the code; "none" when all pass
SplitError(task, chunk_sizes) ==
    IF Len(chunk_sizes) > task.constraints.max_split_count
    THEN "Exceeds maximum split count"
    ELSE IF SumSeq(chunk_sizes) # task.duration
    THEN "Sum of chunk sizes must equal task duration"
    ELSE IF \E i \in 1..Len(chunk_sizes) : chunk_sizes[i] < task.constraints.min_chunk_duration
    THEN "All chunks must be at least min_chunk_duration minutes"
    ELSE IF ~task.constraints.is_splittable
    THEN "Task is not splittable"
    ELSE "none"

\* every chunk given the parent's dependencies
ChunkDependencies_AllInherit(task, i) == task.constraints.dependencies

\* Task.split: the dependencies prepared for chunk i
ChunkDependencies(task, i) ==
    IF i = 1 THEN task.constraints.dependencies ELSE {ChunkId(task.id, i - 1)}

\* f"{self.title} (Part {i}/{len(chunk_sizes)})"
ChunkTitle(title, i, n) == title \o <<" (Part ", Decimal[i], "/", Decimal[n], ")">>

\* Task.split: the chunk built in iteration i
Chunk(task, chunk_sizes, i) ==
    PlainTask(ChunkId(task.id, i), ChunkTitle(task.title, i, Len(chunk_sizes)),
              chunk_sizes[i], task.due_date, task.priority, task.project_id,
              TaskConstraints(task.constraints.zone_type, task.constraints.energy_level,
                              FALSE, task.constraints.min_chunk_duration, 1,
                              task.constraints.required_buffer,
                              ChunkDependencies(task, i)))

\* Task.split
split(task, chunk_sizes) ==
    IF SplitError(task, chunk_sizes) # "none"
    THEN Raised(SplitError(task, chunk_sizes))
    ELSE Returned([i \in 1..Len(chunk_sizes) |-> Chunk(task, chunk_sizes, i)])

(* Inputs of the direct calls: the fixtures of test_task.py and their        *)
(* neighbours on every field a rule reads.                                   *)

MaxChunks == 3

\* the clock read by validate
Now == OnDay(1, 0)

TaskInputs ==
    {PlainTask(<<"task1">>, title, duration, due_date, priority, 1,
               TaskConstraints("DEEP", "HIGH", is_splittable, 30, max_split_count, 15,
                               dependencies)) :
        title \in {<<>>, <<"Important Task">>},
        duration \in {-30, 0, 40, 120},
        due_date \in {Now - MinutesPerDay, Now, Now + MinutesPerDay},
        priority \in {0, 1},
        is_splittable \in BOOLEAN,
        max_split_count \in {2, 3},
        dependencies \in {{}, {<<"dep">>}}}

ChunkSizePool == {20, 40, 60}

ChunkSizeLists == UNION {[1..k -> ChunkSizePool] : k \in 0..MaxChunks}

ValidateCalls == [method : {"validate"}, task : TaskInputs, now : {Now}]
SplitCalls == [method : {"split"}, task : TaskInputs, chunk_sizes : ChunkSizeLists]

\* a direct call of a method: nothing of a scheduling pass is in play
NoPass ==
    /\ caller = "direct"
    /\ tasks = <<>>
    /\ zones = <<>>
    /\ existing_events = <<>>
    /\ InitStrategyState
    /\ InitSchedulerState

TaskInit ==
    /\ pc = "call"
    /\ arg \in ValidateCalls \cup SplitCalls
    /\ ret = <<>>
    /\ NoPass

\* errors = task.validate()
CallValidate ==
    /\ pc = "call"
    /\ arg.method = "validate"
    /\ ret' = Returned(validate(arg.task, arg.now))
    /\ pc' = "called"
    /\ UNCHANGED <<arg, caller, inputVars, stratVars, schedVars>>

\* chunks = task.split(chunk_sizes)
CallSplit ==
    /\ pc = "call"
    /\ arg.method = "split"
    /\ ret' = split(arg.task, arg.chunk_sizes)
    /\ pc' = "called"
    /\ UNCHANGED <<arg, caller, inputVars, stratVars, schedVars>>

TaskNext == CallValidate \/ CallSplit

TaskSpec == TaskInit /\ [][TaskNext]_vars

Called(method) == pc = "called" /\ arg.method = method

\* the rules section 8 lists for a valid task
DurationPositive(task) == task.duration > 0
DueDateNotPast(task, now) == task.due_date >= now
TitleNonEmpty(task) == task.title # <<>>
PriorityPositive(task) == task.priority > 0
SplitFeasible(task) ==
    task.constraints.is_splittable =>
        task.constraints.min_chunk_duration * task.constraints.max_split_count <= task.duration

ViolatedRules(task, now) ==
    {r \in {"duration", "due_date", "title", "priority", "split"} :
        \/ (r = "duration" /\ ~DurationPositive(task))
        \/ (r = "due_date" /\ ~DueDateNotPast(task, now))
        \/ (r = "title" /\ ~TitleNonEmpty(task))
        \/ (r = "priority" /\ ~PriorityPositive(task))
        \/ (r = "split" /\ ~SplitFeasible(task))}

\* C11: validate() never raises; it returns the empty list if and only if
\* duration > 0, due_date is not before now, the title is non-empty,
\* priority > 0 and (when splittable) min_chunk_duration * max_split_count <=
\* duration; each violated rule contributes one message of its own.
C11_ValidateRules ==
    Called("validate") =>
        /\ ~ret.raised
        /\ (ret.value = <<>>) <=> (ViolatedRules(arg.task, arg.now) = {})
        /\ Len(ret.value) = Cardinality(ViolatedRules(arg.task, arg.now))

SplitAccepted(task, chunk_sizes) ==
    /\ task.constraints.is_splittable
    /\ Len(chunk_sizes) <= task.constraints.max_split_count
    /\ SumSeq(chunk_sizes) = task.duration
    /\ \A i \in 1..Len(chunk_sizes) : chunk_sizes[i] >= task.constraints.min_chunk_duration

SplitContract ==
    Called("split") =>
        IF SplitAccepted(arg.task, arg.chunk_sizes)
        THEN /\ ~ret.raised
             /\ Len(ret.value) = Len(arg.chunk_sizes)
             /\ \A i \in 1..Len(ret.value) : ret.value[i].duration = arg.chunk_sizes[i]
             /\ SumSeq([i \in 1..Len(ret.value) |-> ret.value[i].duration]) = arg.task.duration
        ELSE ret.raised

\* C12: split(chunk_sizes) succeeds if and only if the task is splittable,
\* len(chunk_sizes) <= max_split_count, the sizes sum to the duration and each
\* is >= min_chunk_duration; otherwise it raises and the task is unchanged; on
\* success the chunks' durations are chunk_sizes in order and sum to the duration.
C12_SplitAcceptance == [][CallSplit => (arg'.task = arg.task /\ SplitContract')]_vars

\* an accepted split into three chunks
C12_Witness ==
    /\ Called("split")
    /\ ~ret.raised
    /\ Len(ret.value) = 3
    /\ arg.task.duration = 120

\* C13: in an accepted split chunk i has id '<parent.id>_chunk_<i>'; chunk 1 has
\* the parent's dependencies and chunk i > 1 depends on exactly
\* '<parent.id>_chunk_<i-1>'; every chunk is not splittable, has
\* max_split_count 1 and the parent's zone_type, energy_level, required_buffer.
C13_ChunkShape ==
    (Called("split") /\ ~ret.raised) =>
        \A i \in 1..Len(ret.value) :
            LET chunk == ret.value[i]
                parent == arg.task
            IN  /\ chunk.id = parent.id \o <<"_chunk_", Decimal[i]>>
                /\ i = 1 => chunk.constraints.dependencies = parent.constraints.dependencies
                /\ i > 1 => chunk.constraints.dependencies =
                                {parent.id \o <<"_chunk_", Decimal[i - 1]>>}
                /\ chunk.constraints.is_splittable = FALSE
                /\ chunk.constraints.max_split_count = 1
                /\ chunk.constraints.zone_type = parent.constraints.zone_type
                /\ chunk.constraints.energy_level = parent.constraints.energy_level
                /\ chunk.constraints.required_buffer = parent.constraints.required_buffer

\* an accepted split of a task with dependencies into more than one chunk
C13_Witness ==
    /\ Called("split")
    /\ ~ret.raised
    /\ Len(ret.value) >= 2
    /\ arg.task.constraints.dependencies # {}

----------------------------------------------------------------------------
(* TimeBlock, TimeBlockZone and ConflictDetector called directly, as         *)
(* test_scheduling.py does: one task, one block with its events, one time.   *)

ScanStep == 15

\* ConflictDetector.find_conflicts of scheduling.py, the older detector:
\* TimeBlock.get_conflicts there is the plain overlap test for zones too
SchedulingFindConflicts(task, proposed_start, time_block) ==
    LET conflicts == BlockGetConflicts(time_block, proposed_start, task.duration)
    IN  IF conflicts # <<>>
        THEN Conflict("overlap", conflicts,
                      Message("Time slot has conflicting events", <<>>))
        ELSE IF time_block.is_zone /\ time_block.zone_type # task.constraints.zone_type
             THEN Conflict("zone_type", <<>>,
                           Message("Task requires {} zone",
                                   <<ZoneTypeValue[task.constraints.zone_type]>>))
        ELSE IF time_block.is_zone /\ time_block.energy_level # task.constraints.energy_level
             THEN Conflict("energy_level", <<>>,
                           Message("Task requires {} energy level",
                                   <<EnergyLevelValue[task.constraints.energy_level]>>))
        ELSE IF time_block.is_zone /\ get_minimum_duration(task) < time_block.min_duration
             THEN Conflict("min_duration", <<>>,
                           Message("Task duration below zone minimum ({} min)",
                                   <<time_block.min_duration>>))
        ELSE NoConflict

\* Optional[datetime]
NoSlot == [found |-> FALSE]
Slot(time) == [found |-> TRUE, time |-> time]

\* find_available_slot: current_time when the scan loop is entered
ScanStart(task, time_block, start_from) ==
    LET current_time == Max2(start_from, time_block.start)
        required_buffer ==
            Max2(task.constraints.required_buffer,
                 IF time_block.is_zone THEN time_block.buffer_required ELSE 0)
        before == {e \in Range(time_block.events) : e.end <= current_time}
        last_event_before == CHOOSE e \in before : \A o \in before : o.end <= e.end
    IN  IF before # {}
        THEN Max2(current_time, last_event_before.end + required_buffer)
        ELSE current_time

\* a scan that takes the first time of the window without asking the detector
ScanFrom_Unchecked(task, time_block, current_time, end_time) ==
    IF current_time >= end_time THEN NoSlot ELSE Slot(current_time)

\* a scan that gives up after the first time of the window
ScanFrom_OneProbe(task, time_block, current_time, end_time) ==
    IF current_time >= end_time THEN NoSlot
    ELSE IF find_conflicts(task, current_time, time_block).rule = "none"
    THEN Slot(current_time)
    ELSE NoSlot

\* find_available_slot: the while loop
RECURSIVE ScanFrom(_, _, _, _)
ScanFrom(task, time_block, current_time, end_time) ==
    IF current_time >= end_time THEN NoSlot
    ELSE IF find_conflicts(task, current_time, time_block).rule = "none"
    THEN Slot(current_time)
    ELSE ScanFrom(task, time_block, current_time + ScanStep, end_time)

\* ConflictDetector.find_available_slot (conflict.py)
find_available_slot(task, time_block, start_from) ==
    ScanFrom(task, time_block, ScanStart(task, time_block, start_from),
             Min2(task.due_date, time_block.end))

(* Inputs of the direct calls *)

MaxZoneEvents == 2

\* test_scheduling.py: deep_work_task, with a due date inside the working day
DeepWorkTask ==
    PlainTask(<<"task1">>, <<"Deep Work Task">>, 120, Hour(12), 1, 1,
              TaskConstraints("DEEP", "HIGH", FALSE, 120, 1, 15, {}))
\* test_find_available_slot_scanning_behavior: quick_task
QuickTask ==
    PlainTask(<<"quick_task">>, <<"Quick Task">>, 30, Hour(17), 1, 1,
              TaskConstraints("DEEP", "HIGH", FALSE, 30, 1, 15, {}))
\* test_prevent_short_task_in_deep_work_block: quick_review
QuickReview ==
    PlainTask(<<"quick_review">>, <<"Quick Code Review">>, 15, Hour(17), 2, 1,
              TaskConstraints("DEEP", "HIGH", FALSE, 15, 1, 5, {}))
\* a splittable task whose chunks may be shorter than a zone's minimum
SplittableTask ==
    PlainTask(<<"split">>, <<"Splittable Task">>, 60, Hour(17), 1, 1,
              TaskConstraints("DEEP", "HIGH", TRUE, 15, 2, 0, {}))
\* a task that asks for no buffer
NoBufferTask ==
    PlainTask(<<"plain">>, <<"No Buffer">>, 60, Hour(17), 1, 1,
              TaskConstraints("DEEP", "HIGH", FALSE, 60, 1, 0, {}))

CallTasks == {DeepWorkTask, QuickTask, QuickReview, SplittableTask, NoBufferTask}

\* test_find_available_slot_scanning_behavior / test_no_available_slot_found
Meeting1 == Event(<<"meeting1">>, Hour(9), Hour(10), "FIXED", 0)
Meeting2 == Event(<<"meeting2">>, Hour(10) + 15, Hour(11), "FIXED", 0)
Meeting3 == Event(<<"meeting3">>, Hour(10), Hour(11), "FIXED", 0)

BlockEventPool == {Meeting1, Meeting2, Meeting3}

BlockEventLists == InjSeqs(BlockEventPool, MaxZoneEvents)

Blocks ==
    UNION {{ TimeBlockZone(Hour(9), Hour(13), "DEEP", "HIGH", 30, 15, evs),
             TimeBlockZone(Hour(9), Hour(11), "DEEP", "HIGH", 30, 0, evs),
             TimeBlockZone(Hour(9), Hour(13), "LIGHT", "MEDIUM", 30, 10, evs),
             TimeBlockZone(Hour(9), Hour(13), "DEEP", "LOW", 30, 15, evs),
             TimeBlockZone(Hour(9), Hour(13), "DEEP", "HIGH", 120, 15, evs),
             TimeBlock(Hour(9), Hour(13), evs) } : evs \in BlockEventLists}

\* proposed_start / start_from: before, inside and at the end of the blocks
StartTimes ==
    {Hour(8) + 45, Hour(9), Hour(9) + 30, Hour(10), Hour(10) + 15, Hour(10) + 45,
     Hour(11), Hour(11) + 15, Hour(12), Hour(12) + 30, Hour(12) + 45, Hour(13)}

BlockInit ==
    /\ pc = "call"
    /\ arg \in [task : CallTasks, time_block : Blocks, start : StartTimes]
    /\ ret = <<>>
    /\ NoPass

\* time_block.get_conflicts(start, task.duration)
CallGetConflicts ==
    /\ pc = "call"
    /\ ret' = get_conflicts(arg.time_block, arg.start, arg.task.duration)
    /\ pc' = "get_conflicts"
    /\ UNCHANGED <<arg, caller, inputVars, stratVars, schedVars>>

\* time_block.is_available(start, task.duration)
CallIsAvailable ==
    /\ pc = "call"
    /\ ret' = is_available(arg.time_block, arg.start, arg.task.duration)
    /\ pc' = "is_available"
    /\ UNCHANGED <<arg, caller, inputVars, stratVars, schedVars>>

\* ConflictDetector.find_conflicts(task, start, time_block), conflict.py
CallFindConflicts ==
    /\ pc = "call"
    /\ ret' = find_conflicts(arg.task, arg.start, arg.time_block)
    /\ pc' = "find_conflicts"
    /\ UNCHANGED <<arg, caller, inputVars, stratVars, schedVars>>

\* ConflictDetector.find_conflicts(task, start, time_block), scheduling.py
CallSchedulingFindConflicts ==
    /\ pc = "call"
    /\ ret' = SchedulingFindConflicts(arg.task, arg.start, arg.time_block)
    /\ pc' = "scheduling_find_conflicts"
    /\ UNCHANGED <<arg, caller, inputVars, stratVars, schedVars>>

\* ConflictDetector.find_available_slot(task, time_block, start)
CallFindAvailableSlot ==
    /\ pc = "call"
    /\ ret' = find_available_slot(arg.task, arg.time_block, arg.start)
    /\ pc' = "find_available_slot"
    /\ UNCHANGED <<arg, caller, inputVars, stratVars, schedVars>>

BlockNext ==
    \/ CallGetConflicts
    \/ CallIsAvailable
    \/ CallFindConflicts
    \/ CallSchedulingFindConflicts
    \/ CallFindAvailableSlot

BlockSpec == BlockInit /\ [][BlockNext]_vars

Did(method) == pc = method

ProposedStart == arg.start
ProposedEnd == arg.start + arg.task.duration

\* max(task.required_buffer, zone.buffer_required)
EffectiveBuffer ==
    Max2(arg.task.constraints.required_buffer,
         IF arg.time_block.is_zone THEN arg.time_block.buffer_required ELSE 0)

DirectlyOverlaps(e) == e.start < ProposedEnd /\ e.end > ProposedStart

\* e ends less than the effective buffer before the proposed start, or starts
\* less than the effective buffer after the proposed end
WithinBuffer(e) ==
    \/ (e.end <= ProposedStart /\ ProposedStart - e.end < EffectiveBuffer)
    \/ (e.start >= ProposedEnd /\ e.start - ProposedEnd < EffectiveBuffer)

InsideBlock == arg.time_block.start <= ProposedStart /\ ProposedEnd <= arg.time_block.end

\* C14: against a zone find_conflicts returns none if and only if the proposed
\* interval lies inside the zone, zone_type and energy_level match, the task's
\* get_minimum_duration is >= zone.min_duration, no zone event overlaps the
\* interval and none is within the effective buffer of it.
C14_NoConflictIff ==
    ((Did("find_conflicts") \/ Did("scheduling_find_conflicts")) /\ arg.time_block.is_zone) =>
        ((ret.rule = "none") <=>
            /\ InsideBlock
            /\ arg.time_block.zone_type = arg.task.constraints.zone_type
            /\ arg.time_block.energy_level = arg.task.constraints.energy_level
            /\ get_minimum_duration(arg.task) >= arg.time_block.min_duration
            /\ \A e \in Range(arg.time_block.events) : ~DirectlyOverlaps(e) /\ ~WithinBuffer(e))

\* the first rule of the claimed order that applies to the call
FirstRule ==
    IF \E e \in Range(arg.time_block.events) : DirectlyOverlaps(e) THEN "overlap"
    ELSE IF \E e \in Range(arg.time_block.events) : WithinBuffer(e) THEN "buffer"
    ELSE IF ~arg.time_block.is_zone THEN "none"
    ELSE IF arg.time_block.zone_type # arg.task.constraints.zone_type THEN "zone_type"
    ELSE IF arg.time_block.energy_level # arg.task.constraints.energy_level THEN "energy_level"
    ELSE IF arg.task.duration < arg.time_block.min_duration THEN "min_duration"
    ELSE "none"

\* Scenario D: a DEEP task proposed against a LIGHT zone without events
ScenarioD ==
    /\ arg.task.constraints.zone_type = "DEEP"
    /\ arg.time_block.is_zone
    /\ arg.time_block.zone_type = "LIGHT"
    /\ arg.time_block.events = <<>>

\* C15: find_conflicts reports only the first rule that fires, in the order
\* overlap, buffer, zone_type, energy_level, duration below the zone minimum;
\* an overlap conflict lists exactly the directly overlapping events; the
\* zone-type message names the type the task requires; a plain TimeBlock never
\* gets a zone rule; Scenario D yields the zone-type conflict.
C15_FirstRuleOnly ==
    Did("find_conflicts") =>
        /\ ret.rule = FirstRule
        /\ ret.rule = "overlap" =>
               ret.conflicting_events = SelectSeq(arg.time_block.events, DirectlyOverlaps)
        /\ ret.rule = "zone_type" =>
               ret.message = Message("Task requires {} zone",
                                     <<ZoneTypeValue[arg.task.constraints.zone_type]>>)
        /\ ~arg.time_block.is_zone => ret.rule \in {"none", "overlap", "buffer"}
        /\ ScenarioD => ret.rule = "zone_type"

\* an overlap reported for a call in which the buffer and the zone-type rules
\* would fire as well
C15_Witness ==
    /\ Did("find_conflicts")
    /\ ret.rule = "overlap"
    /\ \E e \in Range(arg.time_block.events) : WithinBuffer(e)
    /\ arg.time_block.is_zone
    /\ arg.time_block.zone_type # arg.task.constraints.zone_type

WindowStart == Max2(arg.start, arg.time_block.start)
WindowEnd == Min2(arg.task.due_date, arg.time_block.end)

ConflictFree(t) == find_conflicts(arg.task, t, arg.time_block).rule = "none"

\* C16: a time returned by find_available_slot has no conflict and lies in
\* [max(start_from, block.start), min(task.due_date, block.end)].
C16_SlotIsFree ==
    (Did("find_available_slot") /\ ret.found) =>
        /\ ConflictFree(ret.time)
        /\ WindowStart <= ret.time
        /\ ret.time <= WindowEnd

\* a slot found later than the start of the window of a block with events
C16_Witness ==
    /\ Did("find_available_slot")
    /\ ret.found
    /\ ret.time > WindowStart
    /\ arg.time_block.events # <<>>

\* the times the scan visits: every ScanStep minutes from its first time, before the window's end
ScannedTimes ==
    LET first == ScanStart(arg.task, arg.time_block, arg.start)
    IN  {t \in first..(WindowEnd - 1) : (t - first) % ScanStep = 0}

\* C17: find_available_slot returns the earliest conflict-free time of its
\* 15-minute scan, and none exactly when every scanned time has a conflict.
C17_EarliestOfScan ==
    Did("find_available_slot") =>
        /\ ret.found =>
               /\ ret.time \in ScannedTimes
               /\ ConflictFree(ret.time)
               /\ \A t \in ScannedTimes : t < ret.time => ~ConflictFree(t)
        /\ ~ret.found <=> (\A t \in ScannedTimes : ~ConflictFree(t))

\* test_find_available_slot_scanning_behavior: 11:15 after two meetings
C17_Witness ==
    /\ Did("find_available_slot")
    /\ arg.task = QuickTask
    /\ arg.time_block.events = <<Meeting1, Meeting2>>
    /\ arg.start = Hour(9)
    /\ ret = Slot(Hour(11) + 15)
    /\ Cardinality({t \in ScannedTimes : t < ret.time}) >= 2

\* C18: TimeBlock.get_conflicts returns exactly the events e with
\* start < e.end and start + duration > e.start; TimeBlock.is_available is true
\* exactly when the interval is inside the block and no event overlaps it.
C18_BlockQueries ==
    /\ (Did("get_conflicts") /\ ~arg.time_block.is_zone) =>
           /\ Range(ret) = {e \in Range(arg.time_block.events) :
                               ProposedStart < e.end /\ ProposedEnd > e.start}
           /\ Len(ret) = Cardinality(Range(ret))
    /\ (Did("is_available") /\ ~arg.time_block.is_zone) =>
           (ret <=> /\ InsideBlock
                    /\ \A e \in Range(arg.time_block.events) :
                           ~(ProposedStart < e.end /\ ProposedEnd > e.start))

\* a probe that overlaps one event and only touches the end of another
C18_Witness ==
    /\ Did("get_conflicts")
    /\ ~arg.time_block.is_zone
    /\ ret # <<>>
    /\ \E e \in Range(arg.time_block.events) : e.end = ProposedStart /\ e \notin Range(ret)

\* the probe interval widened by the zone's buffer on both sides
InWidened(e) ==
    /\ ProposedStart - arg.time_block.buffer_required < e.end
    /\ ProposedEnd + arg.time_block.buffer_required > e.start

\* C19: TimeBlockZone.get_conflicts returns exactly the zone's events that
\* overlap [start - buffer, start + duration + buffer), each once;
\* is_available is false when the duration is below min_duration, when the
\* interval leaves the zone, and when an event lies in the widened interval.
C19_ZoneQueries ==
    /\ (Did("get_conflicts") /\ arg.time_block.is_zone) =>
           /\ Range(ret) = {e \in Range(arg.time_block.events) : InWidened(e)}
           /\ Len(ret) = Cardinality(Range(ret))
    /\ (Did("is_available") /\ arg.time_block.is_zone) =>
           ((\/ arg.task.duration < arg.time_block.min_duration
             \/ ~InsideBlock
             \/ \E e \in Range(arg.time_block.events) : InWidened(e)) => ret = FALSE)

\* a probe of a buffered zone that overlaps one event and has another only in its buffer
C19_Witness ==
    /\ Did("get_conflicts")
    /\ arg.time_block.is_zone
    /\ arg.time_block.buffer_required > 0
    /\ \E e \in Range(ret) : DirectlyOverlaps(e)
    /\ \E e \in Range(ret) : ~DirectlyOverlaps(e)

----------------------------------------------------------------------------
(* SequenceBasedStrategy.schedule called twice on the same argument lists    *)

\* out = strategy.schedule(tasks, zones, existing_events), then the same call again
CallAgain ==
    /\ pc = "done"
    /\ caller = "direct"
    /\ ret = <<>>
    /\ arg' = [tasks |-> tasks, zones |-> zones, existing_events |-> existing_events]
    /\ ret' = Returned(result)
    /\ pc' = "start"
    /\ events' = <<>>
    /\ scheduled_task_ids' = {}
    /\ remaining_tasks' = <<>>
    /\ reported' = {}
    /\ outcome' = "none"
    /\ result' = <<>>
    /\ UNCHANGED <<caller, inputVars, schedVars>>

TwiceNext == StrategyNext \/ CallAgain

TwiceSpec == Init /\ [][TwiceNext]_vars

SecondCallReturned == pc = "done" /\ ret # <<>>

----------------------------------------------------------------------------
(* Dependencies: a chain, a cycle and a dependency no input task carries    *)

\* test_respects_task_dependencies: task3 -> task2 -> task1, one hour each
Task1 == Task(<<"task1">>, <<"Task 1">>, 60, OnDay(1, 0), 1, 1, 3,
              TaskConstraints("DEEP", "HIGH", FALSE, 30, 1, 15, {}))
Task2 == Task(<<"task2">>, <<"Task 2">>, 60, OnDay(1, 0), 1, 1, 2,
              TaskConstraints("DEEP", "HIGH", FALSE, 30, 1, 15, {<<"task1">>}))
Task3 == Task(<<"task3">>, <<"Task 3">>, 60, OnDay(1, 0), 1, 1, 1,
              TaskConstraints("DEEP", "HIGH", FALSE, 30, 1, 15, {<<"task2">>}))

\* test_detects_circular_dependencies: two tasks that depend on each other
Cycle1 == Task(<<"cycle1">>, <<"Cycle 1">>, 60, OnDay(1, 0), 1, 1, 1,
               TaskConstraints("DEEP", "HIGH", FALSE, 30, 1, 15, {<<"cycle2">>}))
Cycle2 == Task(<<"cycle2">>, <<"Cycle 2">>, 60, OnDay(1, 0), 1, 1, 2,
               TaskConstraints("DEEP", "HIGH", FALSE, 30, 1, 15, {<<"cycle1">>}))

DependencyPool == {Task1, Task2, Task3, Cycle1, Cycle2, TaskE}

DepInit ==
    /\ caller = "direct"
    /\ pc = "start"
    /\ tasks \in InjSeqs(DependencyPool, MaxTasks)
    /\ zones \in ZoneListPool
    /\ existing_events \in EventLists
    /\ InitStrategyState
    /\ InitSchedulerState
    /\ NoCall

DepSpec == DepInit /\ [][Next]_vars

\* the iteration tried to place t: it left remaining_tasks, or it is the task reported as failed
Attempted(t) ==
    \/ remaining_tasks' # remaining_tasks /\ remaining_tasks' = RemoveFirst(remaining_tasks, t)
    \/ outcome' = "failed" /\ reported' = {t.id}

DependenciesMet(t) == t.constraints.dependencies \subseteq scheduled_task_ids

NoneAvailable ==
    /\ pc = "loop"
    /\ remaining_tasks # <<>>
    /\ \A t \in Range(remaining_tasks) : ~DependenciesMet(t)

\* C21: schedule tries to place a task only when every id of its dependencies
\* is in scheduled_task_ids; when tasks remain and none is available the pass
\* stops as a dependency deadlock and no remaining task has an event in the output.
C21_DependencyGate ==
    [][/\ \A t \in Range(remaining_tasks) : Attempted(t) => DependenciesMet(t)
       /\ NoneAvailable =>
             /\ pc' = "done"
             /\ outcome' = "deadlock"
             /\ remaining_tasks' = remaining_tasks
             /\ \A t \in Range(remaining_tasks) : EventsOf(t, result') = <<>>]_vars

\* a deadlock on two tasks that wait for each other
C21_Witness ==
    /\ outcome = "deadlock"
    /\ \E a, b \in Range(remaining_tasks) :
          /\ a.id \in b.constraints.dependencies
          /\ b.id \in a.constraints.dependencies
    /\ result = <<>>

----------------------------------------------------------------------------
(* Selection order: tasks that differ in due date, project, sequence number  *)
(* and priority                                                              *)

DeepHighConstraints(dependencies) == TaskConstraints("DEEP", "HIGH", FALSE, 30, 1, 15, dependencies)

\* test_reschedule_maintains_project_sequence: same due date and project, sequence 1, 2
Step1 == Task(<<"step1">>, <<"Step 1">>, 60, OnDay(2, 0), 3, 1, 1, DeepHighConstraints({}))
Step2 == Task(<<"step2">>, <<"Step 2">>, 60, OnDay(2, 0), 2, 1, 2, DeepHighConstraints({}))
\* the key of step1 again, later in no field
Twin == Task(<<"twin">>, <<"Twin">>, 60, OnDay(2, 0), 1, 1, 1, DeepHighConstraints({}))
\* a later project with the first sequence number and the best priority
OtherProject == Task(<<"other">>, <<"Other">>, 60, OnDay(2, 0), 1, 2, 1, DeepHighConstraints({}))
\* the earliest due date with the last project, sequence number and priority
Urgent == Task(<<"urgent">>, <<"Urgent">>, 60, OnDay(1, 0), 4, 2, 2, DeepHighConstraints({}))
\* the smallest key of all, waiting for another task
Waiting == Task(<<"waiting">>, <<"Waiting">>, 60, OnDay(1, 0), 1, 1, 1, DeepHighConstraints({<<"other">>}))

OrderPool == {Step1, Step2, Twin, OtherProject, Urgent, Waiting}

OrderInit ==
    /\ caller = "direct"
    /\ pc = "start"
    /\ tasks \in InjSeqs(OrderPool, MaxTasks)
    /\ zones \in ZoneListPool
    /\ existing_events \in EventLists
    /\ InitStrategyState
    /\ InitSchedulerState
    /\ NoCall

OrderSpec == OrderInit /\ [][Next]_vars

\* (due_date, project_id, sequence_number) compared field by field
SelectionKey(t) == <<t.due_date, t.project_id, t.sequence_number>>

Before(k, l) ==
    \E i \in 1..3 : k[i] < l[i] /\ \A j \in 1..(i - 1) : k[j] = l[j]

InputPosition(t) == CHOOSE i \in 1..Len(tasks) : tasks[i] = t

\* t is what the rule selects among the remaining tasks whose dependencies are met
Selected(t) ==
    /\ DependenciesMet(t)
    /\ \A u \in Range(remaining_tasks) :
          DependenciesMet(u) =>
              /\ ~Before(SelectionKey(u), SelectionKey(t))
              /\ SelectionKey(u) = SelectionKey(t) => InputPosition(t) <= InputPosition(u)

----------------------------------------------------------------------------
(* A task that cannot be placed *)

\* the events of the output belong to tasks that left remaining_tasks
PlacedBefore(out) ==
    \A i \in 1..Len(out) :
        \E t \in Range(tasks) : t.id = BaseId(out[i].id) /\ t \notin Range(remaining_tasks)

\* C23: when the selected task cannot be placed the pass ends at once: the
\* failed task and every task still remaining stay unplaced, none is tried
\* in its stead, and the output is the MANAGED events placed before.
C23_FailureAborts ==
    [][\A t \in Range(remaining_tasks) :
          pc = "loop" /\ Selected(t) /\ ~Attempt(t).ok =>
              /\ pc' = "done"
              /\ outcome' = "failed"
              /\ reported' = {t.id}
              /\ remaining_tasks' = remaining_tasks
              /\ result' = ManagedOnly(events)
              /\ PlacedBefore(result')]_vars

\* a pass that failed on its first task and left a task unplaced that had room
C23_Witness ==
    /\ outcome = "failed"
    /\ \E t \in Range(remaining_tasks) : t.id \notin reported /\ Attempt(t).ok
    /\ result = <<>>

----------------------------------------------------------------------------
(* Split placement: tasks that split into chunks around calendar events      *)

\* 195 minutes in chunks of at least 30, at most four of them
Splitter == Task(<<"split">>, <<"Splitter">>, 195, OnDay(2, 0), 1, 1, 1,
                 TaskConstraints("DEEP", "HIGH", TRUE, 30, 4, 15, {}))
\* more than max_split_count chunks of 120 can hold
TooLong == Task(<<"long">>, <<"Too Long">>, 300, OnDay(2, 0), 1, 1, 2,
                TaskConstraints("DEEP", "HIGH", TRUE, 60, 2, 15, {}))
\* 120 + 30: what is left after the first chunk is below min_chunk_duration
Remnant == Task(<<"remnant">>, <<"Remnant">>, 150, OnDay(2, 0), 1, 1, 3,
                TaskConstraints("DEEP", "HIGH", TRUE, 60, 4, 15, {}))
\* waits for the split task
Follower == Task(<<"follower">>, <<"Follower">>, 60, OnDay(1, 0), 1, 1, 1,
                 TaskConstraints("DEEP", "HIGH", FALSE, 30, 1, 15, {<<"split">>}))

SplitPool == {TaskC, TaskF, Splitter, TooLong, Remnant, Follower}

Noon == Event(<<"noon">>, Hour(12), Hour(12) + 30, "FIXED", 0)

ChunkInit ==
    /\ caller = "direct"
    /\ pc = "start"
    /\ tasks \in InjSeqs(SplitPool, MaxTasks)
    /\ zones \in ZoneListPool
    /\ existing_events \in InjSeqs(EventPool \cup {Noon}, MaxExisting)
    /\ InitStrategyState
    /\ InitSchedulerState
    /\ NoCall

ChunkSpec == ChunkInit /\ [][Next]_vars

\* what was left of the task when its k-th chunk was cut
RemainingBefore(t, ch, k) == t.duration - SumSeq([i \in 1..(k - 1) |-> Duration(ch[i])])

\* places where a gap of the working list can end: a zone end or the start of an event
GapEnds == {all_zones[i].end : i \in 1..Len(all_zones)} \cup {events[i].start : i \in 1..Len(events)}

\* C24: every chunk event lasts min(remaining, gap, 120) minutes, which is at
\* least min_chunk_duration and at most 120; a task has at most
\* max_split_count chunks; a task that cannot be cut this way has none.
C24_ChunkBounds ==
    StrategyReturned /\ zones # <<>> =>
        \A t \in Range(tasks) :
            t.constraints.is_splittable =>
                LET ch == ChunksOf(t, result)
                IN  /\ Len(ch) <= t.constraints.max_split_count
                    /\ ~Placed(t) => ch = <<>>
                    /\ \A k \in 1..Len(ch) :
                          LET uncut == Min2(RemainingBefore(t, ch, k), MaxChunkMinutes)
                          IN  /\ Duration(ch[k]) >= t.constraints.min_chunk_duration
                              /\ Duration(ch[k]) <= MaxChunkMinutes
                              /\ Duration(ch[k]) <= uncut
                              /\ Duration(ch[k]) < uncut => ch[k].end \in GapEnds

\* one task cut to a gap shorter than what was left of it, another not placed
\* because max_split_count chunks cannot hold it
C24_Witness ==
    /\ outcome = "failed"
    /\ \E t \in Range(tasks) :
          /\ Placed(t)
          /\ \E k \in 1..Len(ChunksOf(t, result)) :
                /\ Duration(ChunksOf(t, result)[k]) < MaxChunkMinutes
                /\ Duration(ChunksOf(t, result)[k]) < RemainingBefore(t, ChunksOf(t, result), k)
    /\ \E t \in Range(tasks) :
          /\ t.id \in reported
          /\ t.duration > t.constraints.max_split_count * MaxChunkMinutes

----------------------------------------------------------------------------
(* Single-block placement: tasks placed one after the other in a zone        *)

\* Scenario A: one 120-minute DEEP/HIGH task
Focus == Task(<<"focus">>, <<"Focus">>, 120, OnDay(2, 0), 1, 1, 1,
              TaskConstraints("DEEP", "HIGH", FALSE, 30, 1, 15, {}))
\* an hour of work that asks for no buffer of its own
Brief == Task(<<"brief">>, <<"Brief">>, 60, OnDay(2, 0), 1, 1, 2,
              TaskConstraints("DEEP", "HIGH", FALSE, 30, 1, 0, {}))

SinglePool == {Focus, Brief, TaskA, TaskB, TaskD, TaskE}

SingleInit ==
    /\ caller = "direct"
    /\ pc = "start"
    /\ tasks \in InjSeqs(SinglePool, MaxTasks)
    /\ zones \in ZoneListPool
    /\ existing_events \in EventLists
    /\ InitStrategyState
    /\ InitSchedulerState
    /\ NoCall

SingleSpec == SingleInit /\ [][Next]_vars

\* effective buffer = max(task.required_buffer, zone.buffer_required,
\* predecessor_event.buffer_required)
PlacementBuffer(t, zone, last_event) ==
    Max2(Max2(t.constraints.required_buffer, zone.buffer_required), last_event.buffer_required)

\* candidate start = max(zone.start, last event's end + effective buffer)
Candidate(t, zone) ==
    IF events = <<>> THEN zone.start
    ELSE Max2(zone.start,
              events[Len(events)].end + PlacementBuffer(t, zone, events[Len(events)]))

Admitting(t) ==
    {i \in 1..Len(all_zones) :
        /\ all_zones[i].zone_type = t.constraints.zone_type
        /\ Candidate(t, all_zones[i]) + t.duration <= all_zones[i].end
        /\ find_conflicts(t, Candidate(t, all_zones[i]), all_zones[i]).rule = "none"}

FirstAdmitting(t) == CHOOSE i \in Admitting(t) : \A j \in Admitting(t) : i <= j

ScenarioA == tasks = <<Focus>> /\ zones = <<DeepHigh(0)>> /\ existing_events = <<>>
ScenarioB == tasks = <<TaskA, TaskB>> /\ zones = <<DeepHigh(0)>> /\ existing_events = <<>>

\* C25: a task that is not splittable is placed in the first zone instance of
\* its zone_type, in list order, where the candidate start max(zone.start,
\* last event's end + effective buffer) fits before zone.end and
\* find_conflicts is none, and fails when there is none; Scenario A gives
\* 9:00-11:00, Scenario B gives 9:00-10:00 and 10:30-11:30.
C25_SingleBlockPlacement ==
    [][/\ \A t \in Range(remaining_tasks) :
             Attempted(t) /\ ~t.constraints.is_splittable =>
                 IF Admitting(t) = {}
                 THEN outcome' = "failed" /\ events' = events
                 ELSE LET start == Candidate(t, all_zones[FirstAdmitting(t)])
                      IN  events' = Append(events,
                                        Event(t.id, start, start + t.duration, "MANAGED",
                                              t.constraints.required_buffer))
       /\ ScenarioA /\ pc' = "done" =>
             result' = <<Event(<<"focus">>, Hour(9), Hour(11), "MANAGED", 15)>>
       /\ ScenarioB /\ pc' = "done" =>
             result' = <<Event(<<"A">>, Hour(9), Hour(10), "MANAGED", 15),
                         Event(<<"B">>, Hour(10) + 30, Hour(11) + 30, "MANAGED", 30)>>]_vars

----------------------------------------------------------------------------
(* Zone expansion *)

\* C26: k templates over d days give k * d zone instances, day by day in
\* template order; the instance of template z on day n has z's zone_type,
\* energy_level, min_duration and buffer_required, and z's start and end
\* shifted by n days.
C26_ZoneExpansion ==
    pc \in {"loop", "done"} /\ zones # <<>> =>
        LET k == Len(zones)
        IN  /\ Len(all_zones) = k * HorizonDays
            /\ \A n \in 0..(HorizonDays - 1) :
                   \A j \in 1..k :
                       LET z == zones[j]
                           instance == all_zones[n * k + j]
                       IN  /\ instance.zone_type = z.zone_type
                           /\ instance.energy_level = z.energy_level
                           /\ instance.min_duration = z.min_duration
                           /\ instance.buffer_required = z.buffer_required
                           /\ instance.start = z.start + n * MinutesPerDay
                           /\ instance.end = z.end + n * MinutesPerDay

----------------------------------------------------------------------------
(* Termination: the loop of schedule and the scan loop of                    *)
(* find_available_slot, one action per iteration, under weak fairness: the   *)
(* code is sequential and every step that can run does run                   *)

ScanInit ==
    /\ pc = "scan_call"
    /\ arg \in [task : CallTasks, time_block : Blocks, start : StartTimes]
    /\ ret = <<>>
    /\ NoPass

\* find_available_slot up to the loop: current_time after the buffer adjustment
ScanEnter ==
    /\ pc = "scan_call"
    /\ ret' = [current_time |-> ScanStart(arg.task, arg.time_block, arg.start), steps |-> 0]
    /\ pc' = "scan"
    /\ UNCHANGED <<arg, caller, inputVars, stratVars, schedVars>>

\* an iteration that finds a conflict: current_time += 15 minutes
ScanAdvance ==
    /\ pc = "scan"
    /\ ret.current_time < Min2(arg.task.due_date, arg.time_block.end)
    /\ find_conflicts(arg.task, ret.current_time, arg.time_block).rule # "none"
    /\ ret' = [current_time |-> ret.current_time + ScanStep, steps |-> ret.steps + 1]
    /\ UNCHANGED <<arg, pc, caller, inputVars, stratVars, schedVars>>

\* an iteration that finds no conflict: return current_time
ScanFound ==
    /\ pc = "scan"
    /\ ret.current_time < Min2(arg.task.due_date, arg.time_block.end)
    /\ find_conflicts(arg.task, ret.current_time, arg.time_block).rule = "none"
    /\ ret' = [slot |-> Slot(ret.current_time), steps |-> ret.steps]
    /\ pc' = "scan_done"
    /\ UNCHANGED <<arg, caller, inputVars, stratVars, schedVars>>

\* while current_time < end_time: false; return None
ScanExhausted ==
    /\ pc = "scan"
    /\ ret.current_time >= Min2(arg.task.due_date, arg.time_block.end)
    /\ ret' = [slot |-> NoSlot, steps |-> ret.steps]
    /\ pc' = "scan_done"
    /\ UNCHANGED <<arg, caller, inputVars, stratVars, schedVars>>

ScanNext == ScanEnter \/ ScanAdvance \/ ScanFound \/ ScanExhausted

TermNext == StrategyNext \/ ScanNext

\* a loop iteration that has a task to try: the attempt either takes the
\* task out of remaining_tasks (PlaceTask) or ends the pass (FailTask)
Iterate ==
    /\ pc = "loop"
    /\ available_tasks # <<>>
    /\ \/ pc' = "done" /\ remaining_tasks' = remaining_tasks
       \/ pc' = "loop" /\ remaining_tasks' = RemoveFirst(remaining_tasks, NextTask)

\* weak fairness on every step: a step that can run is not put off for ever
TermSpec ==
    /\ (Init \/ ScanInit)
    /\ [][TermNext]_vars
    /\ WF_vars(StartNoZones \/ StartPass \/ LoopDone \/ Deadlock)
    /\ WF_<<pc, remaining_tasks>>(Iterate)
    /\ WF_vars(ScanNext)

Terminated == pc \in {"done", "scan_done"}

\* the 15-minute steps a window holds, a last partial one included
WindowSteps == (Max2(WindowEnd - WindowStart, 0) + ScanStep - 1) \div ScanStep

\* C27: schedule terminates: every iteration of its loop either takes one
\* task out of remaining_tasks or ends the pass, so the loop body runs at
\* most once per task; find_available_slot terminates after at most
\* window length / 15 steps of its scan.
C27_Terminates ==
    /\ [][pc = "loop" => \/ pc' = "done"
                         \/ Len(remaining_tasks') = Len(remaining_tasks) - 1]_vars
    /\ [](pc \in {"scan", "scan_done"} => ret.steps <= WindowSteps)
    /\ [](pc = "scan_done" => ret.slot = find_available_slot(arg.task, arg.time_block, arg.start))
    /\ <>Terminated

\* a pass that went through the loop once for each of its tasks and placed them all
C27_Witness ==
    /\ pc = "done"
    /\ outcome = "complete"
    /\ Len(tasks) = MaxTasks
    /\ Len(result) >= MaxTasks

----------------------------------------------------------------------------
(* The effect of one split attempt on the shared lists *)

\* the events appended by the step
Appended == SubSeq(events', Len(events) + 1, Len(events'))

\* C28: a split attempt that fails leaves the shared events list and
\* scheduled_task_ids as they were; one that succeeds appends the chunks
\* '<id>_chunk_1' .. '<id>_chunk_n' and nothing else, and adds the id of the
\* parent task, no chunk id, to scheduled_task_ids, so that a task waiting
\* for the parent alone has its dependencies met.
C28_AllOrNothing ==
    [][\A t \in Range(remaining_tasks) :
          Attempted(t) /\ t.constraints.is_splittable =>
              IF outcome' = "failed"
              THEN /\ events' = events
                   /\ scheduled_task_ids' = scheduled_task_ids
              ELSE /\ SubSeq(events', 1, Len(events)) = events
                   /\ Len(Appended) >= 1
                   /\ \A i \in 1..Len(Appended) :
                          Appended[i].id = ChunkId(t.id, i) /\ Appended[i].type = "MANAGED"
                   /\ SumSeq([i \in 1..Len(Appended) |-> Duration(Appended[i])]) = t.duration
                   /\ scheduled_task_ids' = scheduled_task_ids \cup {t.id}
                   /\ \A u \in Range(remaining_tasks') :
                          u.constraints.dependencies = {t.id} =>
                              u.constraints.dependencies \subseteq scheduled_task_ids']_vars

\* a task placed after the several chunks of the split task it waits for
C28_Witness ==
    /\ outcome = "complete"
    /\ \E i, j \in 1..Len(result) :
          /\ i + 1 < j
          /\ result[i].id = ChunkId(<<"split">>, 1)
          /\ result[j].id = <<"follower">>
    /\ <<"split">> \in scheduled_task_ids
    /\ ChunkId(<<"split">>, 1) \notin scheduled_task_ids

----------------------------------------------------------------------------
(* The order of the chunks of a task in time *)

\* C29: the chunks of a split task lie in time in the order of their index:
\* '<id>_chunk_i' ends at or before the start of '<id>_chunk_(i+1)'.
C29_ChunksInOrder ==
    StrategyReturned =>
        \A t \in Range(tasks) :
            LET ch == ChunksOf(t, result)
            IN  \A i \in 1..(Len(ch) - 1) :
                    /\ ch[i].id = ChunkId(t.id, i)
                    /\ ch[i + 1].id = ChunkId(t.id, i + 1)
                    /\ ch[i].end <= ch[i + 1].start

----------------------------------------------------------------------------
(* Scheduler.schedule_tasks with calls that fail.  get_tasks, get_events,    *)
(* the strategy, remove_managed_events and create_event may raise; arg       *)
(* records the call that raised and its error, ret what schedule_tasks       *)
(* raised to its caller, prev.events the calendar before the call.           *)

Errors == {"RepositoryError", "ValueError"}

\* schedule_tasks has no try / except: what a callee raises leaves it as it is
Propagate(error) == error

FaultInit ==
    /\ caller = "scheduler"
    /\ pc = "sched_start"
    /\ tasks = <<>>
    /\ zones = <<>>
    /\ existing_events = <<>>
    /\ InitStrategyState
    /\ repo_tasks \in TaskLists
    /\ repo_events \in EventLists
    /\ calendar \in {<<>>, <<Stale>>}
    /\ calls = <<>>
    /\ create_i = 0
    /\ returned = <<>>
    /\ prev = [events |-> calendar, affected |-> {}]
    /\ NoCall

\* tasks = self.task_repo.get_tasks() raises
GetTasksFails ==
    /\ pc = "sched_start"
    /\ \E error \in Errors :
          /\ arg' = [call |-> "get_tasks", error |-> error]
          /\ ret' = Raised(Propagate(error))
    /\ pc' = "raised"
    /\ UNCHANGED <<caller, inputVars, stratVars, schedVars>>

\* existing_events = self.calendar_repo.get_events(start, end) raises
GetEventsFails ==
    /\ pc = "sched_start"
    /\ repo_tasks # <<>>
    /\ \E error \in Errors :
          /\ arg' = [call |-> "get_events", error |-> error]
          /\ ret' = Raised(Propagate(error))
    /\ pc' = "raised"
    /\ UNCHANGED <<caller, inputVars, stratVars, schedVars>>

\* self.strategy.schedule(tasks, zones, existing_events) raises, at any point of the pass
StrategyFails ==
    /\ caller = "scheduler"
    /\ pc \in {"start", "loop"}
    /\ \E error \in Errors :
          /\ arg' = [call |-> "schedule", error |-> error]
          /\ ret' = Raised(Propagate(error))
    /\ pc' = "raised"
    /\ UNCHANGED <<caller, inputVars, stratVars, schedVars>>

\* self.calendar_repo.remove_managed_events() raises, with the events removed or not
RemoveFails ==
    /\ pc = "done"
    /\ caller = "scheduler"
    /\ calendar' \in {calendar, <<>>}
    /\ calls' = Append(calls, [op |-> "remove_managed_events"])
    /\ \E error \in Errors :
          /\ arg' = [call |-> "remove_managed_events", error |-> error]
          /\ ret' = Raised(Propagate(error))
    /\ pc' = "raised"
    /\ UNCHANGED <<caller, inputVars, stratVars, repo_tasks, repo_events, create_i, returned, prev>>

\* self.calendar_repo.create_event(event) raises, with the event stored or not
CreateFails ==
    /\ pc = "create"
    /\ caller = "scheduler"
    /\ create_i <= Len(result)
    /\ calendar' \in {calendar, Append(calendar, result[create_i])}
    /\ calls' = Append(calls, [op |-> "create_event", event |-> result[create_i]])
    /\ \E error \in Errors :
          /\ arg' = [call |-> "create_event", error |-> error]
          /\ ret' = Raised(Propagate(error))
    /\ pc' = "raised"
    /\ UNCHANGED <<caller, inputVars, stratVars, repo_tasks, repo_events, create_i, returned, prev>>

FaultNext ==
    \/ SchedulerNext
    \/ StrategyPass
    \/ GetTasksFails
    \/ GetEventsFails
    \/ StrategyFails
    \/ RemoveFails
    \/ CreateFails

FaultSpec == FaultInit /\ [][FaultNext]_vars

SchedRaised == pc = "raised"

\* a MANAGED event that was persisted before the call is gone
ManagedLost == \E e \in Range(prev.events) : e.type = "MANAGED" /\ e \notin Range(calendar)

Called_remove_managed_events == \E i \in 1..Len(calls) : calls[i].op = "remove_managed_events"

\* C30: when get_tasks, get_events or the strategy fails, schedule_tasks
\* raises that very error, no remove_managed_events or create_event call has
\* been made and the calendar is as before; the calendar can be without a
\* previously persisted MANAGED event only once remove_managed_events has
\* been called, and it is, whenever create_event fails.
C30_FailureBeforeWrites ==
    SchedRaised =>
        /\ ret = Raised(arg.error)
        /\ arg.call \in {"get_tasks", "get_events", "schedule"} =>
              /\ calls = <<>>
              /\ calendar = prev.events
        /\ ManagedLost => Called_remove_managed_events
        /\ arg.call = "create_event" =>
              /\ calls[1].op = "remove_managed_events"
              /\ prev.events # <<>> => ManagedLost

\* the strategy failed half-way through a pass while the calendar held an old event
C30_Witness ==
    /\ SchedRaised
    /\ arg.call = "schedule"
    /\ events # existing_events
    /\ calendar = <<Stale>>

====
